---- MODULE Spec2Model ----
(***************************************************************************)
(* Model of src/jni/sodium_jni_buffer.c: the ByteBuffer resolver           *)
(* (stodium_get_buffer, stodium_release_output, stodium_release_input)     *)
(* and the primitive adapters built on it (crypto_core_hsalsa20,           *)
(* crypto_scalarmult_curve25519, crypto_scalarmult_curve25519_base).       *)
(*                                                                         *)
(* The Java runtime is modelled by what the JNI calls the code makes do:   *)
(* byte arrays, direct regions, the pins GetByteArrayElements hands out    *)
(* (a copy or the array itself, the runtime's choice), the pending         *)
(* exception of a thread.  Where the code runs into behaviour the JNI      *)
(* specification leaves undefined, the model branches over the outcomes:   *)
(* the call is a no-op returning null/garbage, or the process dies.        *)
(***************************************************************************)
EXTENDS Integers, Sequences, FiniteSets, TLC

\* ---------------------------------------------------------------- bounds

\* Bytes a primitive writes to its output (crypto_*_BYTES, scaled down).
OutBytes == 2
\* Byte values are 0..MaxByte; arrays and regions start all-zero.
MaxByte == 1
\* Values an int-returning JNI call may yield when its result is undefined.
MaxGarbage == 1
\* Injected runtime faults (pin failure, accessor failure) per invocation.
MaxFaults == 1
\* Stores the resolver's caller makes through one view between its
\* resolve and its release.
MaxStores == 2
\* Calls of the initialization entry points in one process.
MaxInits == 2

\* Every array and direct region has room for two OutBytes windows side
\* by side, and so for padding on either side of one in the middle.
ArrLen == 2 * OutBytes

Threads == {1, 2}
\* Threads that run under the sequential specification.
SeqThreads == {1}

Bytes == 0..MaxByte
Garbage == 0..MaxGarbage
\* Status codes of the external primitives: 0 success, negative failure.
Statuses == {0, -1}

\* ------------------------------------------------ the runtime's objects

\* A C pointer: null, into a direct region, or the region of a pin.
NULL == [kind |-> "null"]
DirectPtr(r) == [kind |-> "direct", region |-> r]
PinPtr(id) == [kind |-> "pin", id |-> id]

\* jbyteArray references: arrays are 1.., the null reference is 0, and a
\* struct field that was never assigned reads as UNSET.
NULLREF == 0
UNSET == -1
Arrays == {1, 2}
Regions == {1, 2}

\* The jobject null.
NULLBUF == "null"

\* java.nio.ByteBuffer objects the caller can pass.  isDirect: the result
\* of GetDirectBufferAddress is non-null.  array() answers array,
\* arrayOffset() answers arrayOffset, remaining() = limit - position.
\*   direct  allocateDirect(ArrLen), over region 1
\*   slice   wrap(array 1).position(1).limit(1 + OutBytes).slice():
\*           arrayOffset 1, position 0
\*   heap    wrap(array 1).position(1).slice().position(1): arrayOffset 1,
\*           position 1, so that its content starts at index 2
\*   direct2, heap2   the same as direct and heap, over region 2 and
\*           array 2
\*   low, high   wrap(array 1, 0, OutBytes).slice() and
\*           wrap(array 1, OutBytes, OutBytes).slice(): two windows of
\*           one array that do not overlap
ByteBuffer ==
  [ direct |-> [isDirect |-> TRUE, region |-> 1, capacity |-> ArrLen,
                array |-> NULLREF, arrayOffset |-> 0,
                position |-> 0, limit |-> ArrLen],
    slice  |-> [isDirect |-> FALSE, region |-> 0, capacity |-> OutBytes,
                array |-> 1, arrayOffset |-> 1,
                position |-> 0, limit |-> OutBytes],
    heap   |-> [isDirect |-> FALSE, region |-> 0, capacity |-> 1 + OutBytes,
                array |-> 1, arrayOffset |-> 1,
                position |-> 1, limit |-> 1 + OutBytes],
    direct2 |-> [isDirect |-> TRUE, region |-> 2, capacity |-> ArrLen,
                 array |-> NULLREF, arrayOffset |-> 0,
                 position |-> 0, limit |-> ArrLen],
    heap2  |-> [isDirect |-> FALSE, region |-> 0, capacity |-> 1 + OutBytes,
                array |-> 2, arrayOffset |-> 1,
                position |-> 1, limit |-> 1 + OutBytes],
    low    |-> [isDirect |-> FALSE, region |-> 0, capacity |-> OutBytes,
                array |-> 1, arrayOffset |-> 0,
                position |-> 0, limit |-> OutBytes],
    high   |-> [isDirect |-> FALSE, region |-> 0, capacity |-> OutBytes,
                array |-> 1, arrayOffset |-> OutBytes,
                position |-> 0, limit |-> OutBytes] ]

Buffers == DOMAIN ByteBuffer
Handles == Buffers \cup {NULLBUF}
\* The arguments the sequential specification passes.
SeqHandles == {NULLBUF, "direct", "heap"}
\* The arguments the caller of the resolver alone passes.
UnitHandles == {NULLBUF, "direct", "slice", "heap"}

\* What the buffer's relative get/put address inside its backing array.
ViewWindow(h) ==
  LET b == ByteBuffer[h]
  IN  [lo |-> b.arrayOffset + b.position, hi |-> b.arrayOffset + b.limit]

\* The adapters and the number of buffers each takes; the first is the
\* output, the rest are inputs.
Arity == [hsalsa20 |-> 4, scalarmult |-> 3, scalarmult_base |-> 2]
Adapters == DOMAIN Arity
\* Arguments the primitive accepts as a null pointer (hsalsa20's constant).
Optional(f, s) == f = "hsalsa20" /\ s = 4

Slots == 1..4
PinIds == Threads \X Slots
\* Mutant: the stodium_buffer locals are static, one set for all threads.
Local_Static(t, s) == <<1, s>>
\* The stodium_buffer local of slot s in thread t's invocation, and the
\* pin it holds: the locals are automatic, one set per invocation.
Local(t, s) == <<t, s>>
NoPin == [array |-> NULLREF, isCopy |-> FALSE, buf |-> <<>>,
          held |-> FALSE, taken |-> FALSE, released |-> 0]

ZeroArr == [i \in 1..ArrLen |-> 0]

VARIABLES
  arrays,     \* array -> its bytes (the managed heap)
  directMem,  \* region -> its bytes (native memory of direct buffers)
  pins,       \* pin id -> the pin GetByteArrayElements gave for that slot
  pc,         \* thread -> position in the adapter
  k,          \* thread -> slot the resolve / release loop is at
  fn,         \* thread -> adapter being run
  args,       \* thread -> the jobject arguments
  view,       \* thread -> the stodium_buffer locals resolved so far
  result,     \* thread -> the primitive's status (jint result)
  ret,        \* thread -> what the caller got back
  exc,        \* thread -> an exception is pending
  trace,      \* thread -> calls made so far in this invocation
  pre,        \* thread -> per slot, the arrays as they were at resolve
  nfaults,    \* thread -> faults injected in this invocation
  stores,     \* thread -> the stores made through its views' pointers
  returned,   \* thread -> the statuses the external primitive returned
  copying,    \* the runtime's GetByteArrayElements copies the array
  passed,     \* thread -> the arguments the external primitive was called with
  initialized, \* the external library's one-time setup has succeeded
  inits,      \* the calls of the initialization entry points so far
  cache,      \* the static stodium_g_byte_buffer_* references
  loaded      \* what the runs of JNI_OnLoad did and returned

\* The process-wide state outside the resolver and the adapters.
process == <<initialized, inits, cache, loaded>>

vars == <<arrays, directMem, pins, pc, k, fn, args, view, result, ret, exc,
          trace, pre, nfaults, stores, returned, copying, passed, process>>

\* ------------------------------------------------------------ JNI calls

\* Release mode that frees the region without copying it back (jni.h).
JNI_ABORT == 2

\* (*jenv)->GetDirectBufferAddress: the region of a direct buffer, null
\* for any other buffer.
GetDirectBufferAddress(h) ==
  IF ByteBuffer[h].isDirect THEN DirectPtr(ByteBuffer[h].region) ELSE NULL

\* (*jenv)->GetDirectBufferCapacity.
GetDirectBufferCapacity(h) == ByteBuffer[h].capacity

\* (*jenv)->GetByteArrayElements(array, NULL) when it succeeds: a new pin
\* on the array, whose region is a copy of the array or the array itself.
NewPin(A, array, isCopy) ==
  [array |-> array, isCopy |-> isCopy,
   buf |-> IF isCopy THEN A[array] ELSE <<>>,
   held |-> TRUE, taken |-> TRUE, released |-> 0]

\* (*jenv)->ReleaseByteArrayElements(array, elems, mode) on pins P and
\* arrays A.  Defined when elems is the region of a held pin of array:
\* mode 0 copies a copy back to the array, JNI_ABORT does not, both free
\* the pin.  Anything else (null array, null or stale elems) is undefined.
ReleaseByteArrayElements(P, A, array, elems, mode) ==
  IF /\ array \in Arrays
     /\ elems.kind = "pin"
     /\ P[elems.id].held
     /\ P[elems.id].array = array
  THEN [pins |-> [P EXCEPT ![elems.id].held = FALSE,
                           ![elems.id].released = @ + 1],
        arrays |-> IF P[elems.id].isCopy /\ mode = 0
                   THEN [A EXCEPT ![array] = P[elems.id].buf]
                   ELSE A,
        jni |-> <<"ReleaseByteArrayElements">>,
        ub |-> FALSE]
  ELSE [pins |-> IF elems.kind = "pin"
                 THEN [P EXCEPT ![elems.id].released = @ + 1]
                 ELSE P,
        arrays |-> A,
        jni |-> <<"ReleaseByteArrayElements">>,
        ub |-> TRUE]

\* ------------------------------------------------------- the resolver

\* Mutant: the direct branch takes the view to start one byte in.
get_buffer_direct_Offset(h, e) ==
  [view |-> [content |-> GetDirectBufferAddress(h), offset |-> 1,
             capacity |-> GetDirectBufferCapacity(h),
             is_direct |-> TRUE, backing_array |-> UNSET],
   pin |-> NoPin, exc |-> e,
   jni |-> <<"GetDirectBufferAddress", "GetDirectBufferCapacity">>,
   ub |-> e]

\* stodium_get_buffer on a null jbuffer (lines 124-130); backing_array is
\* left unassigned.
get_buffer_null(e) ==
  [view |-> [content |-> NULL, offset |-> 0, capacity |-> 0,
             is_direct |-> TRUE, backing_array |-> UNSET],
   pin |-> NoPin, exc |-> e, jni |-> <<>>, ub |-> FALSE]

\* stodium_get_buffer on a buffer whose GetDirectBufferAddress is not
\* null (lines 132-138); backing_array is left unassigned.
get_buffer_direct(h, e) ==
  [view |-> [content |-> GetDirectBufferAddress(h), offset |-> 0,
             capacity |-> GetDirectBufferCapacity(h),
             is_direct |-> TRUE, backing_array |-> UNSET],
   pin |-> NoPin, exc |-> e,
   jni |-> <<"GetDirectBufferAddress", "GetDirectBufferCapacity">>,
   ub |-> e]

\* stodium_get_buffer on any other buffer (lines 140-146): no result of
\* a JNI call is checked.
get_buffer_indirect(h, id, e, A, fault, isCopy, g) ==
  LET b == ByteBuffer[h]
      \* CallObjectMethod(jbuffer, array): the array, or null and a
      \* pending exception.
      backing_array == IF fault = "array" THEN NULLREF ELSE b.array
      e1 == e \/ fault = "array"
      \* GetByteArrayElements: a pin, or null and a pending
      \* OutOfMemoryError; on a null array the result is undefined.
      pinned == backing_array # NULLREF /\ fault # "pin"
      e2 == e1 \/ (backing_array # NULLREF /\ fault = "pin")
      \* CallIntMethod(jbuffer, arrayOffset)
      offsetOK == ~e2 /\ fault # "meta"
      e3 == e2 \/ fault = "meta"
      \* CallIntMethod(jbuffer, remaining)
      capacityOK == ~e3
  IN  [view |-> [content |-> IF pinned THEN PinPtr(id) ELSE NULL,
                 offset |-> IF offsetOK THEN b.arrayOffset ELSE g,
                 capacity |-> IF capacityOK THEN b.limit - b.position ELSE g,
                 is_direct |-> FALSE,
                 backing_array |-> backing_array],
       pin |-> IF pinned THEN NewPin(A, backing_array, isCopy) ELSE NoPin,
       exc |-> e3,
       jni |-> <<"GetDirectBufferAddress", "CallObjectMethod",
                 "GetByteArrayElements", "CallIntMethod", "CallIntMethod">>,
       ub |-> e3]

\* stodium_get_buffer(jenv, dst, jbuffer), as the record of what it did:
\* the stodium_buffer it filled, the pin it took, whether an exception is
\* pending afterwards, the JNI calls it made, and whether it ran into
\* undefined behaviour (a JNI call on a null array or with an exception
\* pending).  h is jbuffer, id names the pin it may take, e says an
\* exception was pending on entry, A is the arrays.  The runtime's part is
\* in the other parameters: fault ("none", "array": array() throws, as
\* it does on a read-only buffer, "pin": GetByteArrayElements fails,
\* "meta": arrayOffset() throws), isCopy (the pin is a copy), and g: what
\* a CallIntMethod call returns when its result is undefined.
stodium_get_buffer(h, id, e, A, fault, isCopy, g) ==
  IF h = NULLBUF THEN get_buffer_null(e)
  ELSE IF GetDirectBufferAddress(h) # NULL THEN get_buffer_direct(h, e)
  ELSE get_buffer_indirect(h, id, e, A, fault, isCopy, g)

\* Mutant: the output release frees the pin without copying back.
stodium_release_output_Aborts(P, A, buffer) ==
  IF buffer.is_direct
  THEN [pins |-> P, arrays |-> A, jni |-> <<>>, ub |-> FALSE]
  ELSE ReleaseByteArrayElements(P, A, buffer.backing_array,
                                buffer.content, JNI_ABORT)

\* Mutant: the output release without the is_direct test.
stodium_release_output_Unguarded(P, A, buffer) ==
  ReleaseByteArrayElements(P, A, buffer.backing_array, buffer.content, 0)

\* stodium_release_output(jenv, output, buffer): the pins and arrays
\* afterwards, the JNI calls made, and whether the call was undefined.
stodium_release_output(P, A, buffer) ==
  IF buffer.is_direct
  THEN [pins |-> P, arrays |-> A, jni |-> <<>>, ub |-> FALSE]
  ELSE ReleaseByteArrayElements(P, A, buffer.backing_array,
                                buffer.content, 0)

\* Mutant: the input release copies the region back.
stodium_release_input_Commits(P, A, buffer) ==
  IF buffer.is_direct \/ buffer.content = NULL
  THEN [pins |-> P, arrays |-> A, jni |-> <<>>, ub |-> FALSE]
  ELSE ReleaseByteArrayElements(P, A, buffer.backing_array,
                                buffer.content, 0)

\* Mutant: the input release that forgets the pin.
stodium_release_input_Forgets(P, A, buffer) ==
  [pins |-> P, arrays |-> A, jni |-> <<>>, ub |-> FALSE]

\* stodium_release_input(jenv, output, buffer).
stodium_release_input(P, A, buffer) ==
  IF buffer.is_direct \/ buffer.content = NULL
  THEN [pins |-> P, arrays |-> A, jni |-> <<>>, ub |-> FALSE]
  ELSE ReleaseByteArrayElements(P, A, buffer.backing_array,
                                buffer.content, JNI_ABORT)

\* AS_OUTPUT(type, buffer): buffer.content + buffer.offset.
AS_OUTPUT(buffer) == [base |-> buffer.content, off |-> buffer.offset]
\* Mutant: an input is passed from the start of its region.
AS_INPUT_NoOffset(buffer) == [base |-> buffer.content, off |-> 0]
\* AS_INPUT(type, buffer): the same address, const.
AS_INPUT(buffer) == [base |-> buffer.content, off |-> buffer.offset]

\* ------------------------------------------------------ native memory

\* The address is the null pointer.
IsNull(p) == p.base = NULL /\ p.off = 0

\* n bytes at address p can be accessed: p points into a direct region or
\* the region of a held pin, and the bytes are inside it.
Valid(P, p, n) ==
  /\ p.base.kind \in {"direct", "pin"}
  /\ p.base.kind = "pin" => P[p.base.id].held
  /\ p.off >= 0
  /\ p.off + n <= ArrLen

\* seq with bytes w written from index off + 1 on.
Overwrite(seq, off, w) ==
  [i \in 1..Len(seq) |->
     IF i > off /\ i <= off + Len(w) THEN w[i - off] ELSE seq[i]]

\* Memory after the bytes w are stored at the valid address p: a direct
\* region, the copy of a pin, or the array itself under a pin that is no
\* copy.
Store(A, D, P, p, w) ==
  IF p.base.kind = "direct"
  THEN [arrays |-> A, pins |-> P,
        directMem |-> [D EXCEPT ![p.base.region] = Overwrite(@, p.off, w)]]
  ELSE IF P[p.base.id].isCopy
  THEN [arrays |-> A, directMem |-> D,
        pins |-> [P EXCEPT ![p.base.id].buf = Overwrite(@, p.off, w)]]
  ELSE [directMem |-> D, pins |-> P,
        arrays |-> [A EXCEPT ![P[p.base.id].array] = Overwrite(@, p.off, w)]]

\* ------------------------------------------- library load and set-up

\* The value JNI_OnLoad reports on success (jni.h: 0x00010006).
JNI_VERSION_1_6 == 65542

\* A jclass or jmethodID that is null: the statics before JNI_OnLoad, and
\* what a failed FindClass or GetMethodID returns.
NULLID == "null"
NullCache ==
  [stodium_g_byte_buffer_class               |-> NULLID,
   stodium_g_byte_buffer_method_array        |-> NULLID,
   stodium_g_byte_buffer_method_array_offset |-> NULLID,
   stodium_g_byte_buffer_method_remaining    |-> NULLID]

\* The runtime calls JNI_OnLoad makes, in the order of the source.
LoadCalls == <<"GetEnv", "FindClass", "GetMethodID array",
               "GetMethodID arrayOffset", "GetMethodID remaining">>
LoadSteps == 1..Len(LoadCalls)

\* Mutant: every lookup is attempted, and the failure reported at the end.
JNI_OnLoad_NoEarlyReturn(C, fails) ==
  LET ref(i, v) == IF i \in fails THEN NULLID ELSE v
  IN  [calls |-> LoadCalls,
       cache |->
         [stodium_g_byte_buffer_class |-> ref(2, "java/nio/ByteBuffer"),
          stodium_g_byte_buffer_method_array |-> ref(3, "array"),
          stodium_g_byte_buffer_method_array_offset |-> ref(4, "arrayOffset"),
          stodium_g_byte_buffer_method_remaining |-> ref(5, "remaining")],
       ret |-> IF fails = {} THEN JNI_VERSION_1_6 ELSE -1]

\* JNI_OnLoad (lines 77-104) run with the statics C, in a runtime where
\* the calls whose index is in fails fail when they are made: GetEnv by
\* answering other than JNI_OK, a lookup by returning null with an
\* exception pending.  Yields the calls made, the statics and the result.
JNI_OnLoad(C, fails) ==
  LET ref(i, v) == IF i \in fails THEN NULLID ELSE v
      c2 == [C EXCEPT !.stodium_g_byte_buffer_class =
                          ref(2, "java/nio/ByteBuffer")]
      c3 == [c2 EXCEPT !.stodium_g_byte_buffer_method_array =
                          ref(3, "array")]
      c4 == [c3 EXCEPT !.stodium_g_byte_buffer_method_array_offset =
                          ref(4, "arrayOffset")]
      c5 == [c4 EXCEPT !.stodium_g_byte_buffer_method_remaining =
                          ref(5, "remaining")]
      out(n, c, r) == [calls |-> SubSeq(LoadCalls, 1, n), cache |-> c,
                       ret |-> r]
  IN  IF 1 \in fails THEN out(1, C, -1)
      ELSE IF 2 \in fails THEN out(2, c2, -1)
      ELSE IF 3 \in fails THEN out(3, c3, -1)
      ELSE IF 4 \in fails THEN out(4, c4, -1)
      ELSE IF 5 \in fails THEN out(5, c5, -1)
      ELSE out(5, c5, JNI_VERSION_1_6)

\* The library is loaded: JNI_OnLoad has run and reported the version, so
\* the runtime binds the native methods.
Loaded == loaded # <<>> /\ loaded[1].ret = JNI_VERSION_1_6

\* The external library's sodium_init() (called at lines 177 and 192),
\* with the flag I it keeps: 1 when set up already, else 0 and set up, or
\* -1 when the set-up fails.
sodium_init(I, fail) ==
  IF I THEN [initialized |-> TRUE, status |-> 1]
  ELSE IF fail THEN [initialized |-> FALSE, status |-> -1]
  ELSE [initialized |-> TRUE, status |-> 0]

\* ------------------------------------------------------- the adapters

\* Events of trace: <<name, slot>>, slot 0 when no buffer is concerned.
Ev(name, s) == <<name, s>>
JniEvents(names, s) == [i \in 1..Len(names) |-> Ev(names[i], s)]

\* The process before the library is loaded: memory all zero, no
\* invocation under way, the statics zero-initialised.
Started ==
  /\ arrays = [a \in Arrays |-> ZeroArr]
  /\ directMem = [r \in Regions |-> ZeroArr]
  /\ pins = [id \in PinIds |-> NoPin]
  /\ pc = [t \in Threads |-> "idle"]
  /\ k = [t \in Threads |-> 0]
  /\ fn = [t \in Threads |-> "hsalsa20"]
  /\ args = [t \in Threads |-> <<>>]
  /\ view = [t \in Threads |-> <<>>]
  /\ result = [t \in Threads |-> <<>>]
  /\ ret = [t \in Threads |-> [kind |-> "none", value |-> <<>>]]
  /\ exc = [t \in Threads |-> FALSE]
  /\ trace = [t \in Threads |-> <<>>]
  /\ pre = [t \in Threads |-> <<>>]
  /\ nfaults = [t \in Threads |-> 0]
  /\ stores = [t \in Threads |-> <<>>]
  /\ returned = [t \in Threads |-> <<>>]
  /\ copying \in BOOLEAN
  /\ passed = [t \in Threads |-> <<>>]
  /\ initialized = FALSE
  /\ inits = <<>>
  /\ cache = NullCache
  /\ loaded = <<>>

\* The record of a run of JNI_OnLoad against the failing calls fails.
LoadRecord(fails, r) ==
  [fails |-> fails, calls |-> r.calls, ret |-> r.ret, cache |-> r.cache]

\* The process once the library has been loaded, every call of
\* JNI_OnLoad having succeeded: the state the adapters are called in.
Init ==
  /\ arrays = [a \in Arrays |-> ZeroArr]
  /\ directMem = [r \in Regions |-> ZeroArr]
  /\ pins = [id \in PinIds |-> NoPin]
  /\ pc = [t \in Threads |-> "idle"]
  /\ k = [t \in Threads |-> 0]
  /\ fn = [t \in Threads |-> "hsalsa20"]
  /\ args = [t \in Threads |-> <<>>]
  /\ view = [t \in Threads |-> <<>>]
  /\ result = [t \in Threads |-> <<>>]
  /\ ret = [t \in Threads |-> [kind |-> "none", value |-> <<>>]]
  /\ exc = [t \in Threads |-> FALSE]
  /\ trace = [t \in Threads |-> <<>>]
  /\ pre = [t \in Threads |-> <<>>]
  /\ nfaults = [t \in Threads |-> 0]
  /\ stores = [t \in Threads |-> <<>>]
  /\ returned = [t \in Threads |-> <<>>]
  /\ copying \in BOOLEAN
  /\ passed = [t \in Threads |-> <<>>]
  /\ initialized = FALSE
  /\ inits = <<>>
  /\ cache = JNI_OnLoad(NullCache, {}).cache
  /\ loaded = <<LoadRecord({}, JNI_OnLoad(NullCache, {}))>>

\* The process has died (a crash is an outcome of undefined behaviour).
Crashed == \E t \in Threads : pc[t] = "crashed"

\* The Java caller enters adapter f with the jobject arguments a
\* (lines 206-211, 241-245, 263-266): fresh locals, no exception pending.
\* The adapters keep nothing from one invocation to the next, and each
\* thread makes one.
Enter(t, f, a) ==
  /\ ~Crashed
  /\ Loaded
  /\ pc[t] = "idle"
  /\ pc' = [pc EXCEPT ![t] = "resolve"]
  /\ k' = [k EXCEPT ![t] = 1]
  /\ fn' = [fn EXCEPT ![t] = f]
  /\ args' = [args EXCEPT ![t] = a]
  /\ view' = [view EXCEPT ![t] = <<>>]
  /\ result' = [result EXCEPT ![t] = <<>>]
  /\ ret' = [ret EXCEPT ![t] = [kind |-> "none", value |-> <<>>]]
  /\ exc' = [exc EXCEPT ![t] = FALSE]
  /\ trace' = [trace EXCEPT ![t] = <<>>]
  /\ pre' = [pre EXCEPT ![t] = <<>>]
  /\ nfaults' = [nfaults EXCEPT ![t] = 0]
  /\ pins' = [id \in PinIds |-> IF id[1] = t THEN NoPin ELSE pins[id]]
  /\ passed' = [passed EXCEPT ![t] = <<>>]
  /\ UNCHANGED <<arrays, directMem, stores, returned, copying, process>>

\* The order in which adapter f resolves its buffers (lines 212-215,
\* 246-248, 267-268) and the order in which it releases them (lines
\* 223-226, 255-257, 274-275): as declared, the output first.
ResolveOrder(f) == [i \in 1..Arity[f] |-> i]
\* Mutant: the inputs are released first, the output last.
ReleaseOrder_InputsFirst(f) ==
  [i \in 1..Arity[f] |-> IF i = Arity[f] THEN 1 ELSE i + 1]
ReleaseOrder(f) == [i \in 1..Arity[f] |-> i]

\* The faults the runtime can answer a resolve of h with.
Faults(t, h) ==
  IF h # NULLBUF /\ ~ByteBuffer[h].isDirect /\ nfaults[t] < MaxFaults
  THEN {"none", "array", "pin", "meta"}
  ELSE {"none"}

\* What a runtime that fails no call answers a resolve with.
NoFaults == {"none"}

\* The next stodium_get_buffer call of the adapter (lines 212-215,
\* 246-248, 267-268), in a runtime that may fail the calls of the resolve
\* (faulty) or that fails none.  Undefined behaviour inside the call may
\* kill the process.
ResolveIn(t, faulty) ==
  /\ ~Crashed
  /\ pc[t] = "resolve"
  /\ LET s == ResolveOrder(fn[t])[k[t]]
         h == args[t][s]
     IN \E fault \in IF faulty THEN Faults(t, h) ELSE NoFaults,
           g \in Garbage :
          LET r == stodium_get_buffer(h, Local(t, s), exc[t], arrays,
                                      fault, copying, g)
          IN  /\ nfaults' = [nfaults EXCEPT
                               ![t] = IF fault = "none" THEN @ ELSE @ + 1]
              /\ trace' = [trace EXCEPT ![t] =
                             (@ \o <<Ev("stodium_get_buffer", s)>>)
                                \o JniEvents(r.jni, s)]
              /\ \/ /\ view' = [view EXCEPT ![t] = Append(@, r.view)]
                    /\ pins' = [pins EXCEPT ![Local(t, s)] = r.pin]
                    /\ exc' = [exc EXCEPT ![t] = r.exc]
                    /\ pre' = [pre EXCEPT ![t] = Append(@, arrays)]
                    /\ k' = [k EXCEPT ![t] = @ + 1]
                    /\ pc' = [pc EXCEPT ![t] =
                                IF k[t] = Arity[fn[t]] THEN "call"
                                ELSE "resolve"]
                 \/ /\ r.ub
                    /\ pc' = [pc EXCEPT ![t] = "crashed"]
                    /\ UNCHANGED <<view, pins, exc, pre, k>>
  /\ UNCHANGED <<arrays, directMem, fn, args, result, ret, stores, returned,
                 copying, passed,
                 process>>

\* The next stodium_get_buffer call, in a runtime that may fail it.
Resolve(t) == ResolveIn(t, TRUE)

\* The next stodium_get_buffer call, in a runtime that fails no call.
ResolveSound(t) == ResolveIn(t, FALSE)

\* The call of the external primitive with AS_OUTPUT(dst_buffer) and
\* AS_INPUT of each input (lines 217-221, 250-253, 270-272).  The
\* primitive stores OutBytes bytes (here: one nonzero value, repeated) at
\* its first argument and returns a status.  An argument it cannot access makes the call undefined: the
\* process dies, or the primitive returns a status all the same.
Primitive(t) ==
  /\ ~Crashed
  /\ pc[t] = "call"
  /\ LET n == Arity[fn[t]]
         out == AS_OUTPUT(view[t][1])
         in(s) == AS_INPUT(view[t][s])
         defined ==
           /\ Valid(pins, out, OutBytes)
           /\ \A s \in 2..n :
                \/ Valid(pins, in(s), OutBytes)
                \/ Optional(fn[t], s) /\ IsNull(in(s))
     IN \/ \E status \in Statuses, v \in Bytes \ {0} :
             LET w == [i \in 1..OutBytes |-> v]
                 m == IF Valid(pins, out, OutBytes)
                      THEN Store(arrays, directMem, pins, out, w)
                      ELSE [arrays |-> arrays, directMem |-> directMem,
                            pins |-> pins]
             IN  /\ arrays' = m.arrays
                 /\ directMem' = m.directMem
                 /\ pins' = m.pins
                 /\ stores' = [stores EXCEPT ![t] =
                                 IF Valid(pins, out, OutBytes)
                                 THEN Append(@, [p |-> out, w |-> w])
                                 ELSE @]
                 /\ returned' = [returned EXCEPT ![t] = Append(@, status)]
                 /\ result' = [result EXCEPT ![t] = <<status>>]
                 /\ pc' = [pc EXCEPT ![t] = "release"]
                 /\ k' = [k EXCEPT ![t] = 1]
        \/ /\ ~defined
           /\ pc' = [pc EXCEPT ![t] = "crashed"]
           /\ UNCHANGED <<arrays, directMem, pins, result, k, stores,
                          returned>>
  /\ trace' = [trace EXCEPT ![t] = Append(@, Ev("primitive", 0))]
  /\ passed' = [passed EXCEPT ![t] =
                  [s \in 1..Arity[fn[t]] |->
                     <<IF s = 1 THEN AS_OUTPUT(view[t][1])
                       ELSE AS_INPUT(view[t][s])>>]]
  /\ UNCHANGED <<fn, args, view, ret, exc, pre, nfaults, copying, process>>

\* What both release steps do with the outcome r of a release function,
\* named name, on slot s: its effect on the runtime, and on to the next
\* release or to the return.  An undefined release may kill the process.
Released(t, s, name, r) ==
  /\ trace' = [trace EXCEPT ![t] =
                 (@ \o <<Ev(name, s)>>) \o JniEvents(r.jni, s)]
  /\ \/ /\ arrays' = r.arrays
        /\ pins' = r.pins
        /\ k' = [k EXCEPT ![t] = @ + 1]
        /\ pc' = [pc EXCEPT ![t] =
                    IF k[t] = Arity[fn[t]] THEN "return" ELSE "release"]
     \/ /\ r.ub
        /\ pc' = [pc EXCEPT ![t] = "crashed"]
        /\ UNCHANGED <<arrays, pins, k>>
  /\ UNCHANGED <<directMem, fn, args, view, result, ret, exc, pre, nfaults,
                 stores, returned, copying, passed,
                 process>>

\* stodium_release_output(jenv, dst, &dst_buffer) (lines 223, 255, 274).
ReleaseOutput(t) ==
  /\ ~Crashed
  /\ pc[t] = "release"
  /\ ReleaseOrder(fn[t])[k[t]] = 1
  /\ Released(t, 1, "stodium_release_output",
              stodium_release_output(pins, arrays, view[t][1]))

\* Mutant: the inputs are released only when the primitive succeeded.
ReleaseInput_OnSuccessOnly(t) ==
  /\ ~Crashed
  /\ pc[t] = "release"
  /\ ReleaseOrder(fn[t])[k[t]] > 1
  /\ LET s == ReleaseOrder(fn[t])[k[t]]
     IN  IF result[t] = <<0>>
         THEN Released(t, s, "stodium_release_input",
                       stodium_release_input(pins, arrays, view[t][s]))
         ELSE /\ pc' = [pc EXCEPT ![t] = "return"]
              /\ UNCHANGED <<arrays, directMem, pins, k, fn, args, view,
                             result, ret, exc, trace, pre, nfaults, stores,
                             returned, copying, passed,
                 process>>

\* The next stodium_release_input call (lines 224-226, 256-257, 275).
ReleaseInput(t) ==
  /\ ~Crashed
  /\ pc[t] = "release"
  /\ ReleaseOrder(fn[t])[k[t]] > 1
  /\ LET s == ReleaseOrder(fn[t])[k[t]]
     IN  Released(t, s, "stodium_release_input",
                  stodium_release_input(pins, arrays, view[t][s]))

\* Mutant: the adapter reports success whatever the primitive returned.
Return_AlwaysZero(t) ==
  /\ ~Crashed
  /\ pc[t] = "return"
  /\ pc' = [pc EXCEPT ![t] = "done"]
  /\ ret' = [ret EXCEPT ![t] =
               [kind |-> IF exc[t] THEN "exception" ELSE "status",
                value |-> <<0>>]]
  /\ trace' = [trace EXCEPT ![t] = Append(@, Ev("return", 0))]
  /\ UNCHANGED <<arrays, directMem, pins, k, fn, args, view, result, exc,
                 pre, nfaults, stores, returned, copying, passed,
                 process>>

\* return result (lines 228, 259, 277).  The caller gets the pending
\* exception thrown if there is one, the returned status otherwise.
Return(t) ==
  /\ ~Crashed
  /\ pc[t] = "return"
  /\ pc' = [pc EXCEPT ![t] = "done"]
  /\ ret' = [ret EXCEPT ![t] =
               [kind |-> IF exc[t] THEN "exception" ELSE "status",
                value |-> result[t]]]
  /\ trace' = [trace EXCEPT ![t] = Append(@, Ev("return", 0))]
  /\ UNCHANGED <<arrays, directMem, pins, k, fn, args, view, result, exc,
                 pre, nfaults, stores, returned, copying, passed,
                 process>>

Step(t) ==
  \/ \E f \in Adapters : \E a \in [1..Arity[f] -> SeqHandles] : Enter(t, f, a)
  \/ Resolve(t)
  \/ Primitive(t)
  \/ ReleaseOutput(t)
  \/ ReleaseInput(t)
  \/ Return(t)

\* One thread calling the adapters.
Next == \E t \in SeqThreads : Step(t)

Spec == Init /\ [][Next]_vars

\* --------------------------- library load and initialization alone

\* The variables of the invocations.
invocation == <<arrays, directMem, pins, pc, k, fn, args, view, result, ret,
                exc, trace, pre, nfaults, stores, returned, copying, passed>>

\* System.loadLibrary: the runtime runs JNI_OnLoad, once, in a runtime
\* where the calls in fails fail.
LoadLibrary(fails) ==
  /\ loaded = <<>>
  /\ LET r == JNI_OnLoad(cache, fails)
     IN  /\ cache' = r.cache
         /\ loaded' = <<LoadRecord(fails, r)>>
  /\ UNCHANGED <<invocation, initialized, inits>>

\* Mutant: anything but first-time success of the set-up is a failure.
stodium_1init_NonZeroFails(fail) ==
  /\ Loaded
  /\ ~Crashed
  /\ Len(inits) < MaxInits
  /\ LET r == sodium_init(initialized, fail)
     IN  /\ initialized' = r.initialized
         /\ inits' = Append(inits, [fn |-> "stodium_1init",
                                    status |-> r.status,
                                    ret |-> IF r.status # 0 THEN -1 ELSE 0])
  /\ UNCHANGED <<invocation, cache, loaded>>

\* stodium_1init (lines 176-183): -1 if sodium_init() returned -1, else 0.
stodium_1init(fail) ==
  /\ Loaded
  /\ ~Crashed
  /\ Len(inits) < MaxInits
  /\ LET r == sodium_init(initialized, fail)
     IN  /\ initialized' = r.initialized
         /\ inits' = Append(inits, [fn |-> "stodium_1init",
                                    status |-> r.status,
                                    ret |-> IF r.status = -1 THEN -1 ELSE 0])
  /\ UNCHANGED <<invocation, cache, loaded>>

\* Mutant: sodium_1init reports 0 unless the set-up failed.
sodium_1init_Normalised(fail) ==
  /\ Loaded
  /\ ~Crashed
  /\ Len(inits) < MaxInits
  /\ LET r == sodium_init(initialized, fail)
     IN  /\ initialized' = r.initialized
         /\ inits' = Append(inits, [fn |-> "sodium_1init",
                                    status |-> r.status,
                                    ret |-> IF r.status = -1 THEN -1 ELSE 0])
  /\ UNCHANGED <<invocation, cache, loaded>>

\* sodium_1init (lines 191-193): return (jint) sodium_init().
sodium_1init(fail) ==
  /\ Loaded
  /\ ~Crashed
  /\ Len(inits) < MaxInits
  /\ LET r == sodium_init(initialized, fail)
     IN  /\ initialized' = r.initialized
         /\ inits' = Append(inits, [fn |-> "sodium_1init",
                                    status |-> r.status,
                                    ret |-> r.status])
  /\ UNCHANGED <<invocation, cache, loaded>>

\* The arguments of the invocations that run next to the entry points.
LoadHandles == {"direct", "heap"}

\* A process from its start: the library is loaded, then one thread calls
\* the initialization entry points and an adapter, in any order.
NextLoad ==
  \/ \E fails \in SUBSET LoadSteps : LoadLibrary(fails)
  \/ \E fail \in BOOLEAN : stodium_1init(fail)
  \/ \E fail \in BOOLEAN : sodium_1init(fail)
  \/ \E a \in [1..Arity["scalarmult_base"] -> LoadHandles] :
       Enter(1, "scalarmult_base", a)
  \/ Resolve(1)
  \/ Primitive(1)
  \/ ReleaseOutput(1)
  \/ ReleaseInput(1)
  \/ Return(1)

SpecLoad == Started /\ [][NextLoad]_vars

\* ------------------------------------------- the resolver on its own

\* A caller of the three resolver functions alone, as thread 1 on slot 1:
\* it resolves a buffer, stores bytes through the view's content pointer,
\* and releases the view as an output or as an input.
UnitSlot == <<1, 1>>

\* stodium_get_buffer(jenv, &buffer, h).
UnitResolve(h) ==
  /\ pc[1] = "idle"
  /\ \E fault \in Faults(1, h), g \in Garbage :
       LET r == stodium_get_buffer(h, UnitSlot, exc[1], arrays, fault,
                                   copying, g)
       IN  /\ trace' = [trace EXCEPT ![1] =
                          <<Ev("stodium_get_buffer", 1)>> \o JniEvents(r.jni, 1)]
           /\ args' = [args EXCEPT ![1] = <<h>>]
           /\ nfaults' = [nfaults EXCEPT
                            ![1] = IF fault = "none" THEN @ ELSE @ + 1]
           /\ \/ /\ view' = [view EXCEPT ![1] = <<r.view>>]
                 /\ pins' = [pins EXCEPT ![UnitSlot] = r.pin]
                 /\ exc' = [exc EXCEPT ![1] = r.exc]
                 /\ pre' = [pre EXCEPT ![1] = <<arrays>>]
                 /\ pc' = [pc EXCEPT ![1] = "resolved"]
              \/ /\ r.ub
                 /\ pc' = [pc EXCEPT ![1] = "crashed"]
                 /\ UNCHANGED <<view, pins, exc, pre>>
  /\ UNCHANGED <<arrays, directMem, k, fn, result, ret, stores, returned,
                 copying, passed,
                 process>>

\* buffer.content[i] = v, for an index i inside the region.
UnitStore(i, v) ==
  /\ pc[1] = "resolved"
  /\ Len(stores[1]) < MaxStores
  /\ LET p == [base |-> view[1][1].content, off |-> i]
     IN  /\ Valid(pins, p, 1)
         /\ LET m == Store(arrays, directMem, pins, p, <<v>>)
            IN  /\ arrays' = m.arrays
                /\ directMem' = m.directMem
                /\ pins' = m.pins
         /\ stores' = [stores EXCEPT ![1] = Append(@, [p |-> p, w |-> <<v>>])]
  /\ UNCHANGED <<pc, k, fn, args, view, result, ret, exc, trace, pre,
                 nfaults, returned, copying, passed,
                 process>>

\* What a release function's outcome r does to the caller, which is
\* then at pc next.
UnitReleased(name, r, next) ==
  /\ pc[1] = "resolved"
  /\ trace' = [trace EXCEPT ![1] =
                 (@ \o <<Ev(name, 1)>>) \o JniEvents(r.jni, 1)]
  /\ \/ /\ arrays' = r.arrays
        /\ pins' = r.pins
        /\ pc' = [pc EXCEPT ![1] = next]
     \/ /\ r.ub
        /\ pc' = [pc EXCEPT ![1] = "crashed"]
        /\ UNCHANGED <<arrays, pins>>
  /\ UNCHANGED <<directMem, k, fn, args, view, result, ret, exc, pre,
                 nfaults, stores, returned, copying, passed,
                 process>>

\* stodium_release_output(jenv, h, &buffer).
UnitReleaseOutput ==
  UnitReleased("stodium_release_output",
               stodium_release_output(pins, arrays, view[1][1]),
               "released_output")

\* stodium_release_input(jenv, h, &buffer).
UnitReleaseInput ==
  UnitReleased("stodium_release_input",
               stodium_release_input(pins, arrays, view[1][1]),
               "released_input")

NextUnit ==
  \/ \E h \in UnitHandles : UnitResolve(h)
  \/ \E i \in 0..(ArrLen - 1), v \in Bytes \ {0} : UnitStore(i, v)
  \/ UnitReleaseOutput
  \/ UnitReleaseInput

SpecUnit == Init /\ [][NextUnit]_vars

\* ------------------------------------------- concurrent invocations

\* The adapter the concurrent invocations run: one output, one input.
ConcAdapter == "scalarmult_base"

\* The buffers each thread passes when the two invocations are
\* independent: no handle and no backing store in common.
OwnHandles ==
  [t \in Threads |-> IF t = 1 THEN {"direct", "heap"}
                     ELSE {"direct2", "heap2"}]

\* The steps of thread t's invocation once entered, in a runtime that
\* fails no call.
Run(t) ==
  \/ ResolveSound(t)
  \/ Primitive(t)
  \/ ReleaseOutput(t)
  \/ ReleaseInput(t)
  \/ Return(t)

\* Two threads, each making one invocation on buffers of its own, their
\* steps interleaved in any way.
NextConc ==
  \E t \in Threads :
    \/ \E a \in [1..Arity[ConcAdapter] -> OwnHandles[t]] :
         Enter(t, ConcAdapter, a)
    \/ Run(t)

SpecConc == Init /\ [][NextConc]_vars

\* The buffers each thread passes when the two outputs are windows of
\* one array that do not overlap: the output, and the inputs to pick from.
SharedDst == [t \in Threads |-> IF t = 1 THEN "low" ELSE "high"]
SharedSrc == [t \in Threads |-> IF t = 1 THEN {"direct"} ELSE {"direct2"}]

\* Two threads, each making one invocation whose output is its own window
\* of the array the two share, their steps interleaved in any way.
NextShared ==
  \E t \in Threads :
    \/ \E src \in SharedSrc[t] : Enter(t, ConcAdapter, <<SharedDst[t], src>>)
    \/ Run(t)

SpecShared == Init /\ [][NextShared]_vars

\* ---------------------------------------------------------- the claims

\* The number of events named name in a trace.
Count(tr, name) == Cardinality({i \in DOMAIN tr : tr[i][1] = name})
\* The event is in the trace.
Has(tr, ev) == \E i \in DOMAIN tr : tr[i] = ev
\* The resolver's functions and the JNI functions, as event names.
RESOLVE == "stodium_get_buffer"
RELEASE_OUT == "stodium_release_output"
RELEASE_IN == "stodium_release_input"
JniNames == {"GetDirectBufferAddress", "GetDirectBufferCapacity",
             "CallObjectMethod", "GetByteArrayElements", "CallIntMethod",
             "ReleaseByteArrayElements"}
\* The JNI calls made on behalf of slot s.
JniCalls(tr, s) == {i \in DOMAIN tr : tr[i][1] \in JniNames /\ tr[i][2] = s}

\* C1 (release totality): when an invocation of an adapter returns, it
\* has made as many release calls (stodium_release_output plus
\* stodium_release_input) as stodium_get_buffer calls, and every buffer
\* it resolved has been handed to a release function, whatever the
\* primitive's status and also when a resolution left an exception
\* pending for the caller.
C1_ReleaseTotality ==
  \A t \in Threads :
    pc[t] = "done" =>
      /\ Count(trace[t], RESOLVE)
           = Count(trace[t], RELEASE_OUT) + Count(trace[t], RELEASE_IN)
      /\ Count(trace[t], RESOLVE) = Arity[fn[t]]
      /\ \A s \in 1..Len(view[t]) :
           \/ Has(trace[t], Ev(RELEASE_OUT, s))
           \/ Has(trace[t], Ev(RELEASE_IN, s))

\* C1's case: an invocation returned with an exception pending from the
\* resolution of a later buffer and a failure status, after the pin of
\* its first buffer was released.
C1_Witness ==
  \E t \in Threads :
    /\ pc[t] = "done"
    /\ ret[t].kind = "exception"
    /\ result[t] = <<-1>>
    /\ pins[<<t, 1>>].taken
    /\ ~pins[<<t, 1>>].held
    /\ ~pins[<<t, 2>>].taken
    /\ args[t][2] = "heap"

\* C2 (pin balance): no pin is ever released twice, and when an
\* invocation has returned every pin it took has been released exactly
\* once and is no longer held.
C2_PinBalance ==
  /\ \A id \in PinIds : pins[id].released <= 1
  /\ \A id \in PinIds : pins[id].held => pins[id].taken
  /\ \A t \in Threads :
       pc[t] = "done" =>
         \A s \in Slots :
           pins[<<t, s>>].taken =>
             ~pins[<<t, s>>].held /\ pins[<<t, s>>].released = 1

\* C2's case: a returned invocation that mixed a pinned output, a pinned
\* input, a direct input and an absent input, with a failure status.
C2_Witness ==
  \E t \in Threads :
    /\ pc[t] = "done"
    /\ fn[t] = "hsalsa20"
    /\ pins[<<t, 1>>].taken /\ pins[<<t, 1>>].released = 1
    /\ pins[<<t, 2>>].taken /\ pins[<<t, 2>>].released = 1
    /\ args[t][3] = "direct"
    /\ args[t][4] = NULLBUF
    /\ result[t] = <<-1>>

\* C3 (resolution failure aborts the invocation), as claimed: once the
\* resolution of a buffer has failed (an exception is pending), the
\* external primitive is not called in that invocation, and the native
\* function computes no status.
C3_FailureAborts ==
  \A t \in Threads :
    exc[t] => Count(trace[t], "primitive") = 0 /\ result[t] = <<>>

\* The bytes mem after the stores st, in order.
RECURSIVE AfterStores(_, _)
AfterStores(mem, st) ==
  IF st = <<>> THEN mem
  ELSE AfterStores(Overwrite(mem, Head(st).p.off, Head(st).w), Tail(st))

\* Index i (from 0) is inside the window of view v.
InWindow(v, i) == v.offset <= i /\ i < v.offset + v.capacity

\* C4 (pinned commit round trip): a buffer that is not direct is
\* resolved without a fault, bytes are stored through the pinned pointer
\* inside the view's window [offset, offset + capacity), and the view is
\* released as an output.  Then the pin is gone, the backing array holds
\* inside the window what the stores left there, and every byte of the
\* array outside the window is what it was before the resolve.
C4_PinnedCommit ==
  LET v == view[1][1]
      b == ByteBuffer[args[1][1]]
  IN  (/\ pc[1] = "released_output"
       /\ args[1][1] # NULLBUF
       /\ ~b.isDirect
       /\ ~exc[1]
       /\ \A n \in DOMAIN stores[1] : InWindow(v, stores[1][n].p.off))
      => /\ ~pins[UnitSlot].held
         /\ pins[UnitSlot].released = 1
         /\ \A i \in 0..(ArrLen - 1) :
              arrays[b.array][i + 1] =
                IF InWindow(v, i)
                THEN AfterStores(pre[1][1][b.array], stores[1])[i + 1]
                ELSE pre[1][1][b.array][i + 1]

\* C4's case: the pin was a copy, two bytes of the window were stored
\* to, and after the release as output the array has them while its
\* first byte, outside the window, is unchanged.
C4_Witness ==
  /\ pc[1] = "released_output"
  /\ args[1][1] = "heap"
  /\ ~exc[1]
  /\ pins[UnitSlot].isCopy
  /\ Len(stores[1]) = 2
  /\ \A n \in DOMAIN stores[1] : InWindow(view[1][1], stores[1][n].p.off)
  /\ arrays[1] # pre[1][1][1]
  /\ arrays[1][1] = 0

\* C5 (pinned discard on input): a buffer that is not direct is resolved
\* without a fault to a pinned copy, bytes are stored anywhere in the
\* copy, and the view is released as an input.  Then the backing array
\* is byte for byte what it was before the resolve, and the pin has been
\* released once and is gone.
C5_PinnedDiscard ==
  LET b == ByteBuffer[args[1][1]]
  IN  (/\ pc[1] = "released_input"
       /\ args[1][1] # NULLBUF
       /\ ~b.isDirect
       /\ ~exc[1]
       /\ pins[UnitSlot].isCopy)
      => /\ arrays[b.array] = pre[1][1][b.array]
         /\ ~pins[UnitSlot].held
         /\ pins[UnitSlot].released = 1

\* C5's case: the copy differed from the array when it was released as
\* an input.
C5_Witness ==
  /\ pc[1] = "released_input"
  /\ args[1][1] = "slice"
  /\ ~exc[1]
  /\ pins[UnitSlot].isCopy
  /\ Len(stores[1]) = 2
  /\ pins[UnitSlot].buf # arrays[1]

\* C6 (absence transparency): the view of a null jbuffer has a null
\* content, offset 0 and capacity 0; neither resolving it nor releasing
\* it, as output or as input, makes a JNI call, takes a pin or raises an
\* exception, and an invocation on null buffers alone leaves every array
\* and region as it was.
C6_AbsenceTransparency ==
  \A t \in Threads :
    /\ \A s \in 1..Len(view[t]) :
         args[t][s] = NULLBUF =>
           /\ view[t][s].content = NULL
           /\ view[t][s].offset = 0
           /\ view[t][s].capacity = 0
           /\ JniCalls(trace[t], s) = {}
           /\ ~pins[<<t, s>>].taken
    /\ (\A s \in 1..Len(view[t]) : args[t][s] = NULLBUF) =>
         /\ ~exc[t]
         /\ pc[t] = "done" => /\ arrays = [a \in Arrays |-> ZeroArr]
                              /\ directMem = [r \in Regions |-> ZeroArr]

\* C6's case: an invocation on a null output and a null input returned,
\* so both were resolved and released.
C6_Witness ==
  \E t \in Threads :
    /\ pc[t] = "done"
    /\ args[t] = <<NULLBUF, NULLBUF>>
    /\ Has(trace[t], Ev(RELEASE_OUT, 1))
    /\ Has(trace[t], Ev(RELEASE_IN, 2))

\* C7 (direct resolution and round trip): the view of a direct buffer is
\* direct, starts at offset 0 of the buffer's address and has the
\* buffer's capacity; it takes no pin and keeps no backing array; the
\* only JNI calls made for it are the two GetDirectBuffer* calls of the
\* resolve, so neither release makes one; and from the primitive's store
\* on, the bytes stored through a direct output are in the buffer's
\* region.
C7_DirectRoundTrip ==
  \A t \in Threads :
    \A s \in 1..Len(view[t]) :
      (args[t][s] # NULLBUF /\ ByteBuffer[args[t][s]].isDirect) =>
        LET b == ByteBuffer[args[t][s]]
            v == view[t][s]
        IN  /\ v.is_direct
            /\ v.content = DirectPtr(b.region)
            /\ v.offset = 0
            /\ v.capacity = b.capacity
            /\ v.backing_array = UNSET
            /\ ~pins[<<t, s>>].taken
            /\ \A i \in JniCalls(trace[t], s) :
                 trace[t][i][1] \in {"GetDirectBufferAddress",
                                     "GetDirectBufferCapacity"}
            /\ (s = 1 /\ stores[t] # <<>>) =>
                 \A i \in 1..OutBytes :
                   directMem[b.region][i] = stores[t][1].w[i]

\* C7's case: an invocation with a direct output and a direct input has
\* stored through the output and returned.
C7_Witness ==
  \E t \in Threads :
    /\ pc[t] = "done"
    /\ args[t][1] = "direct"
    /\ args[t][2] = "direct"
    /\ stores[t] # <<>>
    /\ directMem[1] # ZeroArr

\* C8 (pinned resolution), as claimed: the view of a buffer that is not
\* direct, resolved without a fault, is not direct, has the buffer's
\* array as backing_array, the region of a pin of that array as content,
\* arrayOffset() as offset and remaining() as capacity, and
\* [offset, offset + capacity) is the range of the array that the buffer
\* currently views.
C8_PinnedResolution ==
  \A t \in Threads :
    \A s \in 1..Len(view[t]) :
      (args[t][s] # NULLBUF /\ ~ByteBuffer[args[t][s]].isDirect /\ ~exc[t]) =>
        LET b == ByteBuffer[args[t][s]]
            v == view[t][s]
        IN  /\ ~v.is_direct
            /\ v.backing_array = b.array
            /\ v.content = PinPtr(<<t, s>>)
            /\ pins[<<t, s>>].taken
            /\ pins[<<t, s>>].array = b.array
            /\ v.offset = b.arrayOffset
            /\ v.capacity = b.limit - b.position
            /\ v.offset = ViewWindow(args[t][s]).lo
            /\ v.offset + v.capacity = ViewWindow(args[t][s]).hi

\* An event of the adapter itself, not a JNI call inside the resolver.
IsCall(ev) == ev[1] \notin JniNames

\* C9 (ordering of one invocation): every resolve comes before the
\* primitive call, the primitive call before every release, the output
\* release before every input release, two buffers are released in the
\* order they were resolved in, and once the releases are over each
\* buffer has been released exactly once, whatever the status.
C9_Ordering ==
  \A t \in Threads :
    LET tr == SelectSeq(trace[t], IsCall)
        IsRelease(i) == tr[i][1] \in {RELEASE_OUT, RELEASE_IN}
        Resolved(s) == \E i \in DOMAIN tr : tr[i] = Ev(RESOLVE, s)
        ResolvedAt(s) == CHOOSE i \in DOMAIN tr : tr[i] = Ev(RESOLVE, s)
        ReleasedAt(s) == {i \in DOMAIN tr : IsRelease(i) /\ tr[i][2] = s}
    IN  /\ \A i, j \in DOMAIN tr :
             (tr[i][1] = RESOLVE /\ tr[j][1] = "primitive") => i < j
        /\ \A i, j \in DOMAIN tr :
             (tr[i][1] = "primitive" /\ IsRelease(j)) => i < j
        /\ \A i, j \in DOMAIN tr :
             (tr[i][1] = RELEASE_OUT /\ tr[j][1] = RELEASE_IN) => i < j
        /\ \A s1, s2 \in Slots :
             (Resolved(s1) /\ Resolved(s2) /\ ResolvedAt(s1) < ResolvedAt(s2))
               => \A j1 \in ReleasedAt(s1), j2 \in ReleasedAt(s2) : j1 < j2
        /\ pc[t] \in {"release", "return", "done"} =>
             /\ Count(tr, RESOLVE) = Arity[fn[t]]
             /\ Count(tr, "primitive") = 1
        /\ pc[t] \in {"return", "done"} =>
             /\ Has(tr, Ev(RELEASE_OUT, 1))
             /\ \A s \in 2..Arity[fn[t]] : Has(tr, Ev(RELEASE_IN, s))
             /\ Count(tr, RELEASE_OUT) + Count(tr, RELEASE_IN) = Arity[fn[t]]

\* C9's case: a four-buffer invocation whose primitive failed has
\* released all four buffers.
C9_Witness ==
  \E t \in Threads :
    /\ pc[t] = "return"
    /\ fn[t] = "hsalsa20"
    /\ returned[t] = <<-1>>
    /\ Has(trace[t], Ev(RELEASE_IN, 4))
    /\ pins[<<t, 1>>].released = 1

\* C10 (status pass-through): the primitive is called at most once in an
\* invocation, exactly once in one that returns, and the adapter returns
\* the status that call returned; the caller gets it as the status when
\* no exception is pending.
C10_StatusPassThrough ==
  \A t \in Threads :
    /\ Len(returned[t]) <= 1
    /\ pc[t] = "done" =>
         /\ Len(returned[t]) = 1
         /\ Count(trace[t], "primitive") = 1
         /\ ret[t].value = <<returned[t][1]>>
         /\ ~exc[t] => ret[t].kind = "status"

\* C10's case: a failure status came back to the caller from an
\* invocation on a pinned, a direct, a pinned and an absent buffer.
C10_Witness ==
  \E t \in Threads :
    /\ pc[t] = "done"
    /\ args[t] = <<"heap", "direct", "heap", NULLBUF>>
    /\ ret[t] = [kind |-> "status", value |-> <<-1>>]

\* A status that reports no failure: 0, or a positive primitive-defined
\* code such as 1 for "set up already".
Success(status) == status >= 0

\* C11 (idempotent initialization): whenever an initialization entry point
\* is called after a call in which the external set-up succeeded for the
\* first time, and the set-up now reports that it was done already, both
\* calls return a success status and the process is initialized; and once
\* a set-up has succeeded the process stays initialized in every later
\* state, whatever runs.
C11_IdempotentInit ==
  /\ \A i \in 1..Len(inits) - 1 :
       inits[i].status = 0 /\ inits[i + 1].status = 1
         => /\ Success(inits[i].ret)
            /\ Success(inits[i + 1].ret)
            /\ initialized
  /\ (\E i \in 1..Len(inits) : inits[i].status = 0) => initialized
  /\ \A i \in 1..Len(inits) : inits[i].status = 1 => initialized

\* stodium_1init was called twice, the set-up succeeding and then
\* reporting "done already", and an adapter invocation has returned.
C11_Witness ==
  /\ Len(inits) = 2
  /\ inits[1].fn = "stodium_1init" /\ inits[1].status = 0
  /\ inits[2].fn = "stodium_1init" /\ inits[2].status = 1
  /\ pc[1] = "done"

\* C12 as stated (returns the external status): every call of an
\* initialization entry point returns exactly the status the external
\* set-up function returned to it.
C12_ReturnsExternalStatus ==
  \A i \in 1..Len(inits) : inits[i].ret = inits[i].status

\* C12 amended: sodium_1init returns exactly the status the external
\* set-up function returned; stodium_1init returns -1 when that status is
\* -1 and 0 otherwise, so it reports "done already" (1) as 0.
C12_StatusOrNormalised ==
  \A i \in 1..Len(inits) :
    /\ inits[i].fn = "sodium_1init" => inits[i].ret = inits[i].status
    /\ inits[i].fn = "stodium_1init" =>
         inits[i].ret = (IF inits[i].status = -1 THEN -1 ELSE 0)
    /\ inits[i].status \in {0, 1, -1}

\* stodium_1init was called after a call in which the set-up succeeded:
\* the set-up answered "done already" (1) and stodium_1init returned 0.
C12_Witness ==
  /\ \E i \in 1..Len(inits) :
       inits[i].fn = "stodium_1init" /\ inits[i].status = 1
         /\ inits[i].ret = 0
  /\ \E i \in 1..Len(inits) : inits[i].status = 0

\* The backing store of buffer b: its direct region or its array.
StoreOf(b) ==
  IF ByteBuffer[b].isDirect THEN <<"region", ByteBuffer[b].region>>
  ELSE <<"array", ByteBuffer[b].array>>

\* The bytes backing store x holds now.
Contents(x) == IF x[1] = "region" THEN directMem[x[2]] ELSE arrays[x[2]]

\* What thread t's invocation leaves in the backing store of its buffer b
\* when it runs alone on zeroed memory: the bytes the primitive wrote, at
\* the start of the output view, if b is backed by the output's store,
\* and nothing otherwise.
Alone(t, b) ==
  LET dst == args[t][1]
      off == IF ByteBuffer[dst].isDirect THEN 0
             ELSE ByteBuffer[dst].arrayOffset
  IN  IF StoreOf(b) = StoreOf(dst)
      THEN Overwrite(ZeroArr, off, stores[t][1].w)
      ELSE ZeroArr

\* C13 (concurrent invocations on independent handles): two threads run
\* one invocation each on buffers of their own, interleaved in any way.
\* The invocations write none of the process-wide state, and when an
\* invocation has returned, whatever the other has done so far, it
\* returned the status its own primitive call returned, each of its
\* buffers' backing stores holds what the invocation leaves there when
\* run alone, and every pin it took has been released once.
C13_IndependentInvocations ==
  /\ cache = loaded[1].cache
  /\ ~initialized
  /\ \A t \in Threads :
       pc[t] = "done" =>
         /\ ret[t] = [kind |-> "status", value |-> <<returned[t][1]>>]
         /\ Len(returned[t]) = 1
         /\ Len(stores[t]) = 1
         /\ \A b \in OwnHandles[t] : Contents(StoreOf(b)) = Alone(t, b)
         /\ \A s \in Slots :
              pins[<<t, s>>].taken =>
                ~pins[<<t, s>>].held /\ pins[<<t, s>>].released = 1

\* Both invocations have returned, with different statuses, each having
\* written its own pinned copy of its own array and a direct input.
C13_Witness ==
  /\ copying
  /\ pc[1] = "done" /\ pc[2] = "done"
  /\ args[1] = <<"heap", "direct">> /\ args[2] = <<"heap2", "direct2">>
  /\ ret[1].value = <<0>> /\ ret[2].value = <<-1>>
  /\ pins[<<1, 1>>].released = 1 /\ pins[<<2, 1>>].released = 1

RECURSIVE ReleaseAll(_, _, _, _)
ReleaseAll(P, A, V, order) ==
  IF order = <<>> THEN [pins |-> P, arrays |-> A, ub |-> FALSE]
  ELSE LET s == Head(order)
           r == IF s = 1 THEN stodium_release_output(P, A, V[s])
                ELSE stodium_release_input(P, A, V[s])
           rest == ReleaseAll(r.pins, r.arrays, V, Tail(order))
       IN  [rest EXCEPT !.ub = rest.ub \/ r.ub]

\* The pins of P that are outstanding.
Outstanding(P) == {id \in PinIds : P[id].held}

\* The bytes of seq from index lo + 1 to lo + n.
Window(seq, lo, n) == [i \in 1..n |-> seq[lo + i]]

\* C15 (release order is neutral): when the primitive has returned,
\* releasing the output view before the input views, as the code does,
\* and releasing it after them leave the same bytes in every array, the
\* same pins outstanding (none) and agree on whether a release was
\* undefined; and after either, an output pinned without a fault holds
\* at its view's offset the bytes the primitive wrote.  This includes
\* invocations whose input and output are one heap buffer.
C15_ReleaseOrderNeutral ==
  \A t \in Threads :
    pc[t] = "release" /\ k[t] = 1 =>
      LET fwd == ReleaseAll(pins, arrays, view[t], ReleaseOrder(fn[t]))
          rev == ReleaseAll(pins, arrays, view[t],
                            ReleaseOrder_InputsFirst(fn[t]))
          dst == args[t][1]
      IN  /\ fwd.arrays = rev.arrays
          /\ Outstanding(fwd.pins) = Outstanding(rev.pins)
          /\ fwd.ub = rev.ub
          /\ nfaults[t] = 0 => Outstanding(fwd.pins) = {} /\ ~fwd.ub
          /\ dst # NULLBUF /\ ~ByteBuffer[dst].isDirect /\ nfaults[t] = 0 =>
               LET a == ByteBuffer[dst].array
                   lo == ByteBuffer[dst].arrayOffset
               IN  /\ Len(stores[t]) = 1
                   /\ Window(fwd.arrays[a], lo, OutBytes) = stores[t][1].w
                   /\ Window(rev.arrays[a], lo, OutBytes) = stores[t][1].w

\* The primitive has returned in an invocation whose output and input
\* are the same heap buffer, pinned twice as copies, before any release.
C15_Witness ==
  /\ pc[1] = "release" /\ k[1] = 1
  /\ fn[1] = "scalarmult"
  /\ args[1] = <<"heap", "heap", "direct">>
  /\ copying
  /\ nfaults[1] = 0
  /\ pins[<<1, 1>>].held /\ pins[<<1, 2>>].held
  /\ pins[<<1, 1>>].buf # pins[<<1, 2>>].buf

\* C16 (no release of a pin that was never taken), as claimed: no
\* invocation calls ReleaseByteArrayElements for a view whose content
\* pointer is null or whose backing array reference is null.
C16_NoReleaseWithoutPin ==
  \A t \in Threads :
    \A s \in 1..Len(view[t]) :
      view[t][s].content = NULL \/ view[t][s].backing_array = NULLREF
        => ~Has(trace[t], Ev("ReleaseByteArrayElements", s))

\* C17 (no lost update between disjoint windows of one array), as
\* claimed: two invocations run concurrently, their outputs being heap
\* buffers on disjoint windows of one array; once both have returned,
\* each window holds the bytes its own invocation's primitive wrote.
C17_NoLostUpdate ==
  pc[1] = "done" /\ pc[2] = "done" =>
    \A t \in Threads :
      LET b == ByteBuffer[SharedDst[t]]
      IN  Window(arrays[b.array], b.arrayOffset, OutBytes) = stores[t][1].w

\* The least element of a non-empty set of numbers.
Least(S) == CHOOSE i \in S : \A j \in S : i <= j

====
